---------------------------- MODULE Spec2Model ----------------------------
(* State-machine model of src/index.js: an Express application with       *)
(* express-session sessions, a MongoDB "users" collection, bcrypt         *)
(* password hashes and two access-control middlewares.                    *)
(*                                                                        *)
(* A handler touches the shared collection at most once, except POST      *)
(* /signup, which reads it (findOne) and later writes it (insertOne).     *)
(* Everything else a handler does is local to its request or to the       *)
(* session of its own client, so a handler with one storage call is one   *)
(* action, taken at the moment of that call, and POST /signup is two: up  *)
(* to the lookup, and from the hash through the insert to the response.   *)
(* Every awaited operation may reject. Each client (session token) issues *)
(* its requests one after the other; requests of different clients        *)
(* interleave.                                                            *)
(*                                                                        *)
(* What a finished request sent back is not part of the program's state.  *)
(* To inspect it, the step that finishes a request either lets it pass    *)
(* (out stays empty) or records it in out, and a behaviour is followed up *)
(* to the first recorded request: every request that can be finished in a *)
(* reachable state is recorded in some behaviour, next to the state it    *)
(* started from and the state it left.                                    *)
EXTENDS Integers, Sequences, FiniteSets, TLC

(* ------------------------------ bounds -------------------------------- *)
MaxUsers == 2                 \* cap on the number of records ever inserted

Tokens == {"t1", "t2"}        \* session cookies (one client each)

(* ---------------------------- input values ---------------------------- *)
Undefined == "undefined"      \* a missing body field / absent session field

Emails     == {"a@x.com", "b@x.com"}
Passwords  == {"pw1", "pw2"}
BadEmail   == "not-an-email"

\* The well-formed signup bodies the clients send.
Bodies ==
    {[name |-> "A", email |-> "a@x.com", password |-> "pw1"],
     [name |-> "B", email |-> "a@x.com", password |-> "pw2"],
     [name |-> "B", email |-> "b@x.com", password |-> "pw1"]}

\* Signup bodies that Joi rejects: a field missing, empty or ill-formed.
BadBodies ==
    {[name |-> Undefined, email |-> "a@x.com", password |-> "pw1"],
     [name |-> "", email |-> "a@x.com", password |-> "pw1"],
     [name |-> "A", email |-> Undefined, password |-> "pw1"],
     [name |-> "A", email |-> BadEmail, password |-> "pw1"],
     [name |-> "A", email |-> "a@x.com", password |-> Undefined],
     [name |-> "A", email |-> "a@x.com", password |-> ""],
     [name |-> "", email |-> BadEmail, password |-> Undefined]}

SaltRounds == 12              \* bcrypt.hash(password, 12)

VARIABLES server,             \* "connecting" | "listening" | "stalled" | "exited"
          usersCollection,    \* Undefined until start() has connected
          users,              \* the users collection, in insertion order; _id = position
          sessions,           \* session store: token -> session state
          req,                \* per client: the request in flight
          out                 \* the finished request under inspection, if any

vars == <<server, usersCollection, users, sessions, req, out>>

(* ------------------------------ sessions ------------------------------ *)
\* No entry in the session store for the token.
NoSession ==
    [live |-> FALSE, authenticated |-> FALSE, name |-> Undefined,
     user_type |-> Undefined, user_id |-> 0]

\* A session as express-session creates it on first contact.
DefaultSession == [NoSession EXCEPT !.live = TRUE]

\* The session middleware: req.session of a request carrying token t.
LoadSession(s) == IF s.live THEN s ELSE DefaultSession

(* ------------------------------ bcrypt -------------------------------- *)
Hash(p) == [alg |-> "bcrypt", cost |-> SaltRounds, digest |-> p]

\* bcrypt.compare used without await: the pending promise is truthy.
CompareNotAwaited(p, h) == TRUE

Compare(p, h) == h = Hash(p)

(* ------------------------------- store -------------------------------- *)
\* null, as a document
NoUser ==
    [id |-> 0, name |-> Undefined, email |-> Undefined,
     password |-> Hash(Undefined), user_type |-> Undefined]

\* The document stored at position i, with its _id.
Doc(us, i) ==
    [id |-> i, name |-> us[i].name, email |-> us[i].email,
     password |-> us[i].password, user_type |-> us[i].user_type]

\* usersCollection.findOne({ email }): the first match in insertion order,
\* or null.
FindOne(us, email) ==
    IF \E i \in 1..Len(us) : us[i].email = email
    THEN Doc(us, CHOOSE i \in 1..Len(us) :
                    /\ us[i].email = email
                    /\ \A j \in 1..(i-1) : us[j].email # email)
    ELSE NoUser

\* replaceOne({ email }, doc, { upsert: true }) in place of insertOne: a
\* record with the email is overwritten.
InsertOneReplace(us, name, email, hashed) ==
    LET doc == [name |-> name, email |-> email, password |-> hashed,
                user_type |-> "user"]
    IN  IF \E i \in 1..Len(us) : us[i].email = email
        THEN [i \in 1..Len(us) |-> IF us[i].email = email THEN doc ELSE us[i]]
        ELSE Append(us, doc)

\* insertOne of a document without the user_type field.
InsertOneNoRole(us, name, email, hashed) ==
    Append(us, [name |-> name, email |-> email, password |-> hashed,
                user_type |-> Undefined])

\* usersCollection.insertOne({ name, email, password: hashed,
\* user_type: 'user' })
InsertOne(us, name, email, hashed) ==
    Append(us, [name |-> name, email |-> email, password |-> hashed,
                user_type |-> "user"])

\* updateOne with an empty filter, setting the role of the first record
\* whatever the id.
UpdateOneNoFilter(us, id, role) ==
    [i \in 1..Len(us) |-> IF i = 1 THEN [us[i] EXCEPT !.user_type = role]
                                   ELSE us[i]]

\* usersCollection.updateOne({ _id }, { $set: { user_type } })
UpdateOne(us, id, role) ==
    [i \in 1..Len(us) |-> IF i = id THEN [us[i] EXCEPT !.user_type = role]
                                    ELSE us[i]]

(* ---------------------------- middlewares ----------------------------- *)
\* isAuthenticated testing `req.session` instead of its authenticated flag.
isAuthenticatedAnySession(s) == s.live

\* isAuthenticated: TRUE when next() is called, FALSE when it redirects.
isAuthenticated(s) == s.authenticated

\* isAdmin deciding on the stored record of the session's user instead of
\* the role copied into the session.
isAdminLive(s) ==
    IF s.user_id \in 1..Len(users)
    THEN users[s.user_id].user_type # "admin"
    ELSE s.user_type # "admin"

\* isAdmin: the value of req.permissionDenied after the middleware.
isAdmin(s) == s.user_type # "admin"

(* --------------------------- Joi validation --------------------------- *)
\* error.details[0].message of schema.validate(req.body), "" when valid.
JoiError(name, email, password) ==
    IF name = Undefined THEN "\"name\" is required"
    ELSE IF name = "" THEN "\"name\" is not allowed to be empty"
    ELSE IF email = Undefined THEN "\"email\" is required"
    ELSE IF email = "" THEN "\"email\" is not allowed to be empty"
    ELSE IF email = BadEmail THEN "\"email\" must be a valid email"
    ELSE IF password = Undefined THEN "\"password\" is required"
    ELSE IF password = "" THEN "\"password\" is not allowed to be empty"
    ELSE ""

(* ------------------------ requests and responses ---------------------- *)
NoResponse == [kind |-> "none", target |-> "", error |-> "", users |-> {},
               status |-> 0]

\* res.render(view, { error }) under the status code set so far.
Render(view, error, status) ==
    [kind |-> "render", target |-> view, error |-> error, users |-> {},
     status |-> status]

\* res.redirect(location): Express sets the status code to 302.
Redirect(location) ==
    [kind |-> "redirect", target |-> location, error |-> "", users |-> {},
     status |-> 302]

\* A request as it enters the application: res.statusCode is 200, nothing
\* has run yet. pc = "done" once res holds the response.
NewReq(route) ==
    [route |-> route, pc |-> "done", name |-> Undefined, email |-> Undefined,
     password |-> Undefined, id |-> 0, role |-> Undefined,
     hashed |-> Hash(Undefined), user |-> NoUser, permissionDenied |-> FALSE,
     status |-> 200, trace |-> << >>, res |-> NoResponse]

\* No request in flight.
Idle == NewReq("none")

\* What is kept of a request r of client t that is finished: what the
\* client sent, how far the request went (r.trace, r.pc) and the response
\* (r.res).
Outcome(t, r) ==
    [token |-> t, route |-> r.route, name |-> r.name, email |-> r.email,
     password |-> r.password, id |-> r.id,
     permissionDenied |-> r.permissionDenied,
     trace |-> r.trace, pc |-> r.pc, res |-> r.res]

\* No finished request is recorded.
NoOutput == Outcome("none", Idle)

\* The client of token t has no request in flight.
Ready(t) == /\ server = "listening"
            /\ out = NoOutput
            /\ req[t].pc = "done"

Running(t, route, pc) ==
    /\ server = "listening"
    /\ out = NoOutput
    /\ req[t].route = route
    /\ req[t].pc = pc

\* The handler of t's request ran up to a response (r.pc = "done") or up to
\* its next await; s is req.session as the request leaves it.
Step(t, r, s) ==
    /\ IF r.pc = "done"
       THEN /\ out' \in {NoOutput, Outcome(t, r)}
            /\ req' = [req EXCEPT ![t] = Idle]
       ELSE /\ out' = NoOutput
            /\ req' = [req EXCEPT ![t] = r]
    /\ sessions' = [sessions EXCEPT ![t] = s]
    /\ server' = server

\* The response of Express's own error handler: status 500, no view.
ErrorPage ==
    [kind |-> "error", target |-> "", error |-> "Internal Server Error",
     users |-> {}, status |-> 500]

\* A promise rejected inside an async handler with no catch, r.pc being the
\* operation that rejected. What follows depends on the versions installed
\* (none is pinned in the source): Express 4 drops the rejection, so the
\* request never gets a response (r.res stays empty) and the process goes on
\* or, with Node.js 15 and later, exits, which drops the in-memory sessions
\* and every request; Express 5 hands the rejection to its error handler,
\* which answers with ErrorPage.
UnhandledRejection(t, r) ==
    \/ /\ out' \in {NoOutput, Outcome(t, r)}
       /\ server' = server
       /\ req' = [req EXCEPT ![t] = Idle]
       /\ sessions' = sessions
    \/ /\ out' \in {NoOutput, Outcome(t, r)}
       /\ server' = "exited"
       /\ req' = [u \in Tokens |-> Idle]
       /\ sessions' = [u \in Tokens |-> NoSession]
    \/ /\ out' \in {NoOutput, Outcome(t, [r EXCEPT !.res = ErrorPage])}
       /\ server' = server
       /\ req' = [req EXCEPT ![t] = Idle]
       /\ sessions' = [sessions EXCEPT ![t] = LoadSession(@)]

Init ==
    /\ server = "connecting"
    /\ usersCollection = Undefined
    /\ users = << >>
    /\ sessions = [t \in Tokens |-> NoSession]
    /\ req = [t \in Tokens |-> Idle]
    /\ out = NoOutput

(* ------------------------------ start() ------------------------------- *)
\* start() calling app.listen without awaiting client.connect().
StartListenFirst ==
    /\ server = "connecting"
    /\ server' = "listening"
    /\ usersCollection' \in {usersCollection, "users"}
    /\ UNCHANGED <<users, sessions, req, out>>

\* await client.connect(); then the collection is set and app.listen runs.
\* A rejected connect leaves start() rejected: no listen.
Start ==
    /\ server = "connecting"
    /\ \E ok \in BOOLEAN :
          IF ok
          THEN /\ usersCollection' = "users"
               /\ server' = "listening"
          ELSE /\ usersCollection' = usersCollection
               /\ server' \in {"stalled", "exited"}
    /\ UNCHANGED <<users, sessions, req, out>>

(* ------------- GET /, GET /signup, GET /login, unmatched -------------- *)
Pages == {"GET /", "GET /signup", "GET /login", "404"}

PageHandler(route) ==
    [NewReq(route) EXCEPT
       !.trace = <<"handler">>,
       !.res = Render(route, "", IF route = "404" THEN 404 ELSE 200)]

GetPage(t) ==
    /\ Ready(t)
    /\ \E route \in Pages :
          Step(t, PageHandler(route), LoadSession(sessions[t]))
    /\ UNCHANGED <<usersCollection, users>>

(* ---------------------------- POST /signup ---------------------------- *)
\* Signups that passed the lookup and have not yet inserted their record.
PendingSignups == {t \in Tokens : req[t].pc = "hash"}

\* POST /signup without the `if (error)` check on the validation result.
SignupHandlerUnvalidated(body) ==
    [NewReq("POST /signup") EXCEPT
       !.name = body.name, !.email = body.email, !.password = body.password,
       !.pc = "findOne", !.trace = <<"handler", "findOne">>]

\* The handler up to `await usersCollection.findOne({ email })`; r.name,
\* r.email and r.password are the fields of req.body.
SignupHandler(body) ==
    LET error == JoiError(body.name, body.email, body.password)
        r == [NewReq("POST /signup") EXCEPT
                !.name = body.name, !.email = body.email,
                !.password = body.password, !.trace = <<"handler">>]
    IN  IF error # ""
        THEN [r EXCEPT !.res = Render("signup", error, 200)]
        ELSE [r EXCEPT !.pc = "findOne",
                       !.trace = <<"handler", "findOne">>]

\* POST /signup without the `if (existingUser)` check.
SignupFoundUnchecked(r, existingUser) == [r EXCEPT !.pc = "hash"]

\* findOne resolved with existingUser: `if (existingUser) return
\* res.render(...)`, else the handler goes on to `await bcrypt.hash(...)`.
SignupFound(r, existingUser) ==
    IF existingUser # NoUser
    THEN [r EXCEPT !.pc = "done",
                   !.res = Render("signup", "Email already in use", 200)]
    ELSE [r EXCEPT !.pc = "hash"]

\* The request arrives, is validated and, when valid, looks the email up.
\* A signup goes on to its insert only while the records and the pending
\* inserts are fewer than MaxUsers.
PostSignup(t) ==
    /\ Ready(t)
    /\ \E body \in Bodies \cup BadBodies, ok \in BOOLEAN :
          LET r == SignupHandler(body)
              s == LoadSession(sessions[t])
              f == SignupFound(r, FindOne(users, r.email))
          IN  IF r.pc = "done" THEN ok /\ Step(t, r, s)
              ELSE IF ok
              THEN /\ f.pc = "hash" =>
                         Len(users) + Cardinality(PendingSignups) < MaxUsers
                   /\ Step(t, f, s)
              ELSE UnhandledRejection(t, r)
    /\ UNCHANGED <<usersCollection, users>>

\* The session fields set after a signup (user_id is not set).
SignupSession(s, name) ==
    [s EXCEPT !.authenticated = TRUE, !.name = name, !.user_type = "user"]

\* The awaits of the handler after the lookup, in order.
SignupAwaits == {"hash", "insertOne"}

\* insertOne resolved: the response is the redirect to /members.
SignupInserted(r) ==
    [r EXCEPT !.pc = "done", !.hashed = Hash(r.password),
              !.trace = Append(@, "insertOne"),
              !.res = Redirect("/members")]

\* bcrypt.hash resolves, then insertOne resolves; the session is
\* authenticated and the response sent. Either await may reject.
SignupInsertOne(t) ==
    /\ Running(t, "POST /signup", "hash")
    /\ \E failing \in SignupAwaits \cup {"none"} :
          IF failing = "none"
          THEN /\ users' = InsertOne(users, req[t].name, req[t].email,
                                     Hash(req[t].password))
               /\ Step(t, SignupInserted(req[t]),
                       SignupSession(sessions[t], req[t].name))
          ELSE /\ users' = users
               /\ UnhandledRejection(t, [req[t] EXCEPT !.pc = failing])
    /\ UNCHANGED usersCollection

(* ----------------------------- POST /login ---------------------------- *)
\* The handler up to `await usersCollection.findOne({ email })`; the body
\* is not validated.
LoginHandler(email, password) ==
    [NewReq("POST /login") EXCEPT
       !.email = email, !.password = password,
       !.trace = <<"handler", "findOne">>, !.pc = "findOne"]

\* The catch block of POST /login.
LoginCaught(r) ==
    [r EXCEPT !.pc = "done",
              !.res = Render("login", "Something went wrong. Try again.", 200)]

\* findOne resolved with user: `if (!user) return res.render(...)`, else
\* the handler goes on to `await bcrypt.compare(...)`.
LoginFound(r, user) ==
    IF user = NoUser
    THEN [r EXCEPT !.pc = "done",
                   !.res = Render("login", "Email not found", 200)]
    ELSE [r EXCEPT !.pc = "compare", !.user = user,
                   !.trace = Append(@, "compare")]

\* bcrypt.compare resolved with match.
LoginCompared(r, match) ==
    IF ~match
    THEN [r EXCEPT !.pc = "done",
                   !.res = Render("login", "Incorrect password", 200)]
    ELSE [r EXCEPT !.pc = "done", !.res = Redirect("/members")]

\* The session fields set after a successful login, from the document that
\* findOne returned.
LoginSession(s, user) ==
    [s EXCEPT !.authenticated = TRUE, !.name = user.name,
              !.user_type = user.user_type, !.user_id = user.id]

\* The awaits of the handler, in order; one of them may reject.
LoginAwaits == {"findOne", "compare"}

\* The try block: findOne, then bcrypt.compare, which also rejects when
\* the password is missing; a rejection lands in the catch block.
LoginTry(r, us, failing) ==
    IF failing = "findOne" THEN LoginCaught(r)
    ELSE LET f == LoginFound(r, FindOne(us, r.email))
         IN  IF f.pc = "done" THEN f
             ELSE IF failing = "compare" \/ f.password = Undefined
             THEN LoginCaught(f)
             ELSE LoginCompared(f, Compare(f.password, f.user.password))

\* The session fields assigned as soon as the user is found, before the
\* result of bcrypt.compare is tested.
LoginFoundOnly(r) == r.user # NoUser

\* The login went through to `// Login successful`.
LoginSuccessful(r) == r.res = Redirect("/members")

PostLogin(t) ==
    /\ Ready(t)
    /\ \E email \in Emails, password \in Passwords \cup {Undefined},
          failing \in LoginAwaits \cup {"none"} :
          LET r == LoginTry(LoginHandler(email, password), users, failing)
              s == LoadSession(sessions[t])
          IN  Step(t, r, IF LoginSuccessful(r) THEN LoginSession(s, r.user)
                                               ELSE s)
    /\ UNCHANGED <<usersCollection, users>>

(* ----------------------------- GET /logout ---------------------------- *)
\* GET /logout clearing the flag only, not destroying the session.
DestroySessionFlagOnly(s) == [s EXCEPT !.authenticated = FALSE]

\* req.session.destroy()
DestroySession(s) == NoSession

\* res.redirect('/')
LogoutHandler ==
    [NewReq("GET /logout") EXCEPT
       !.trace = <<"handler">>, !.res = Redirect("/")]

GetLogout(t) ==
    /\ Ready(t)
    /\ Step(t, LogoutHandler, DestroySession(LoadSession(sessions[t])))
    /\ UNCHANGED <<usersCollection, users>>

(* -------------------------- the gated routes -------------------------- *)
\* A request stopped by isAuthenticated: res.redirect('/login').
Rejected(route) ==
    [NewReq(route) EXCEPT !.trace = <<"isAuthenticated">>,
                          !.res = Redirect("/login")]

\* A request that passed isAuthenticated and went through isAdmin, which
\* sets req.permissionDenied and res.status(403) and calls next().
Gated(route, s) ==
    [NewReq(route) EXCEPT
       !.trace = <<"isAuthenticated", "isAdmin", "handler">>,
       !.permissionDenied = isAdmin(s),
       !.status = IF isAdmin(s) THEN 403 ELSE 200]

MembersHandler(s) ==
    [NewReq("GET /members") EXCEPT
       !.trace = <<"isAuthenticated", "handler">>,
       !.res = Render("members", "", 200)]

GetMembers(t) ==
    /\ Ready(t)
    /\ LET s == LoadSession(sessions[t])
       IN  Step(t, IF isAuthenticated(s) THEN MembersHandler(s)
                                         ELSE Rejected("GET /members"), s)
    /\ UNCHANGED <<usersCollection, users>>

\* GET /admin without the `if (req.permissionDenied)` check.
AdminHandlerUnchecked(r) ==
    [r EXCEPT !.pc = "find", !.trace = Append(@, "find")]

\* The handler of GET /admin up to `await usersCollection.find().toArray()`.
AdminHandler(r) ==
    IF r.permissionDenied
    THEN [r EXCEPT !.res = Render("admin",
                     "403: You do not have permission to view this page.",
                     r.status)]
    ELSE [r EXCEPT !.pc = "find", !.trace = Append(@, "find")]

\* findOne() in place of find().toArray(): the page lists one record.
AdminFoundOne(r, us) ==
    [r EXCEPT !.pc = "done",
              !.res = [Render("admin", "", r.status)
                         EXCEPT !.users = 1..(IF Len(us) > 0 THEN 1 ELSE 0)]]

\* find().toArray() resolved with every record: the page lists them.
AdminFound(r, us) ==
    [r EXCEPT !.pc = "done",
              !.res = [Render("admin", "", r.status)
                         EXCEPT !.users = 1..Len(us)]]

GetAdmin(t) ==
    /\ Ready(t)
    /\ \E ok \in BOOLEAN :
          LET s == LoadSession(sessions[t])
              r == IF isAuthenticated(s)
                   THEN AdminHandler(Gated("GET /admin", s))
                   ELSE Rejected("GET /admin")
          IN  IF r.pc = "done" THEN ok /\ Step(t, r, s)
              ELSE IF ok THEN Step(t, AdminFound(r, users), s)
              ELSE UnhandledRejection(t, r)
    /\ UNCHANGED <<usersCollection, users>>

\* The :id values a client sends: the _id of a record (or of none, when the
\* collection is shorter) and a string that is no ObjectId (-1).
Ids == 1..MaxUsers \cup {-1}

\* The handler of GET /promote/:id and GET /demote/:id up to
\* `await usersCollection.updateOne(...)`; new ObjectId(id) throws on a
\* malformed id.
RoleHandler(r, id, role) ==
    IF id = -1 THEN [r EXCEPT !.pc = "throw"]
    ELSE [r EXCEPT !.id = id, !.role = role, !.pc = "updateOne",
                   !.trace = Append(@, "updateOne")]

\* updateOne resolved: res.redirect('/admin').
RoleUpdated(r) ==
    [r EXCEPT !.pc = "done", !.res = Redirect("/admin")]

SetRole(t, route, role) ==
    /\ Ready(t)
    /\ \E id \in Ids, ok \in BOOLEAN :
          LET s == LoadSession(sessions[t])
              r == IF isAuthenticated(s)
                   THEN RoleHandler(Gated(route, s), id, role)
                   ELSE Rejected(route)
          IN  IF r.pc = "done"
              THEN ok /\ Step(t, r, s) /\ users' = users
              ELSE IF r.pc = "updateOne" /\ ok
              THEN /\ users' = UpdateOne(users, r.id, r.role)
                   /\ Step(t, RoleUpdated(r), s)
              ELSE /\ users' = users
                   /\ UnhandledRejection(t, r)
    /\ UNCHANGED usersCollection

GetPromote(t) == SetRole(t, "GET /promote/:id", "admin")

GetDemote(t) == SetRole(t, "GET /demote/:id", "user")

RoleRoutes == {"GET /promote/:id", "GET /demote/:id"}

\* The routes behind isAuthenticated.
GatedRoutes == {"GET /members", "GET /admin"} \cup RoleRoutes

(* --------------------------- specification ---------------------------- *)
Next ==
    \/ Start
    \/ \E t \in Tokens :
          \/ GetPage(t)
          \/ PostSignup(t)
          \/ SignupInsertOne(t)
          \/ PostLogin(t)
          \/ GetLogout(t)
          \/ GetMembers(t)
          \/ GetAdmin(t)
          \/ GetPromote(t)
          \/ GetDemote(t)

Spec == Init /\ [][Next]_vars

(* ------------------------------ properties --------------------------- *)
\* req.session of the next request of client t.
Session(t) == LoadSession(sessions[t])

\* The step finishes a request of client t to one of the routes, and the
\* request is the one under inspection.
Answers(t, routes) == out'.token = t /\ out'.route \in routes

\* The step changes the role of a record.
RoleChanged ==
    \E i \in 1..Len(users) : users'[i].user_type # users[i].user_type

\* The step leaves the fields of every session as they were (a session may
\* be created, or all be lost with the process).
SessionsKept ==
    \A t \in Tokens :
        sessions'[t] \in {sessions[t], LoadSession(sessions[t]), NoSession}

EmailPresent(e) == \E i \in 1..Len(users) : users[i].email = e

\* C1: a record's role changes only by a /promote/:id or /demote/:id request
\* of a session whose role is admin; such a request of an authenticated
\* session with role 'user' changes no role.
C1_RoleChangeOnlyByAdmin ==
    [][\A t \in Tokens :
          /\ (RoleChanged /\ out'.token = t)
                => /\ out'.route \in RoleRoutes
                   /\ Session(t).authenticated
                   /\ Session(t).user_type = "admin"
          /\ (Answers(t, RoleRoutes) /\ Session(t).authenticated
                /\ Session(t).user_type = "user")
                => ~RoleChanged]_vars

\* C2: a request to a gated route by a session that is not authenticated is
\* answered with the redirect to /login; isAdmin is not evaluated, the
\* handler does not run, the collection and the session stay as they were.
C2_UnauthenticatedRedirected ==
    [][\A t \in Tokens :
          (Answers(t, GatedRoutes) /\ ~Session(t).authenticated)
             => /\ out'.res.kind = "redirect"
                /\ out'.res.target = "/login"
                /\ out'.trace = <<"isAuthenticated">>
                /\ users' = users
                /\ sessions' = [sessions EXCEPT ![t] = Session(t)]
                /\ server' = server]_vars

C2_Witness ==
    /\ out.route \in GatedRoutes
    /\ out.trace = <<"isAuthenticated">>
    /\ out.res.kind = "redirect"
    /\ out.res.target = "/login"
    /\ Len(users) > 0

\* C3: GET /admin by an authenticated session with role 'user' is not
\* redirected: the request is marked permission-denied, reaches the
\* handler, and the response has status 403 and an empty user list.
C3_AdminPageDenied ==
    [][\A t \in Tokens :
          (Answers(t, {"GET /admin"}) /\ Session(t).authenticated
             /\ Session(t).user_type = "user")
             => /\ out'.permissionDenied
                /\ out'.trace = <<"isAuthenticated", "isAdmin", "handler">>
                /\ out'.res.kind = "render"
                /\ out'.res.target = "admin"
                /\ out'.res.status = 403
                /\ out'.res.users = {}]_vars

C3_Witness ==
    /\ out.route = "GET /admin"
    /\ out.permissionDenied
    /\ out.res.status = 403
    /\ \E t \in Tokens : out.token = t /\ sessions[t].user_type = "user"
    /\ Len(users) > 0

\* C4: /promote/:id and /demote/:id by an authenticated session that is not
\* admin are answered like GET /admin: the permission-denied view with
\* status 403, not a redirect to /admin.
C4_RoleRoutesDenied ==
    [][\A t \in Tokens :
          (Answers(t, RoleRoutes) /\ Session(t).authenticated
             /\ Session(t).user_type # "admin"
             /\ out'.res.kind \notin {"none", "error"})
             => /\ out'.res.kind = "render"
                /\ out'.res.status = 403]_vars

\* C5: no two records have the same email, whatever the interleaving of
\* concurrent signups.
C5_UniqueEmail ==
    \A i, j \in 1..Len(users) : users[i].email = users[j].email => i = j

\* C6: a valid POST /signup with an email that is already in the collection
\* is answered with the signup form and 'Email already in use' (unless the
\* lookup itself is rejected), never goes on to the hash and the insert,
\* changes no record and authenticates no session.
C6_DuplicateSignupFails ==
    [][\A t \in Tokens :
          /\ (Ready(t) /\ Answers(t, {"POST /signup"})
                /\ JoiError(out'.name, out'.email, out'.password) = ""
                /\ EmailPresent(out'.email))
                => /\ \/ out'.res.kind \in {"none", "error"}
                      \/ /\ out'.res.kind = "render"
                         /\ out'.res.target = "signup"
                         /\ out'.res.error = "Email already in use"
                   /\ users' = users
                   /\ SessionsKept
          /\ (Ready(t) /\ req'[t].pc # "done")
                => ~EmailPresent(req'[t].email)]_vars

C6_Witness ==
    /\ out.route = "POST /signup"
    /\ out.res.error = "Email already in use"
    /\ EmailPresent(out.email)
    /\ \E t \in Tokens : out.token = t /\ ~sessions[t].authenticated

\* C7: a valid signup with a fresh email succeeds (record created, session
\* authenticated, redirect to /members), and the login that follows with
\* the same email and password succeeds. Every record is the record of such
\* a signup, so the login is one with the email and password of a record;
\* rejected storage and hash operations are left aside.
C7_SignupThenLogin ==
    [][\A t \in Tokens :
          /\ (Running(t, "POST /signup", "hash") /\ out'.token = t
                /\ out'.res.kind \notin {"none", "error"})
                => /\ out'.res.kind = "redirect"
                   /\ out'.res.target = "/members"
                   /\ sessions'[t].authenticated
                   /\ Len(users') = Len(users) + 1
                   /\ users'[Len(users')].email = out'.email
          /\ (/\ Answers(t, {"POST /login"})
              /\ out'.res.error # "Something went wrong. Try again."
              /\ \E i \in 1..Len(users) :
                    /\ users[i].email = out'.email
                    /\ users[i].password.digest = out'.password)
                => /\ out'.res.kind = "redirect"
                   /\ out'.res.target = "/members"
                   /\ sessions'[t].authenticated]_vars

\* C8: a session becomes authenticated only by a successful POST /login
\* (the email is found and the password is the one of the found record's
\* hash) or by a successful POST /signup (valid body, no record with the
\* email at the lookup, record inserted), answered by the redirect to
\* /members; nothing else and no failed login or signup sets the flag.
C8_AuthenticatedOnlyByLoginOrSignup ==
    [][\A t \in Tokens :
          /\ (~sessions[t].authenticated /\ sessions'[t].authenticated)
                => \/ /\ Running(t, "POST /signup", "hash")
                      /\ JoiError(req[t].name, req[t].email,
                                  req[t].password) = ""
                      /\ Len(users') = Len(users) + 1
                      /\ users'[Len(users')].email = req[t].email
                      /\ out'.token = t =>
                            /\ out'.route = "POST /signup"
                            /\ out'.res.target = "/members"
                   \/ /\ Ready(t)
                      /\ users' = users
                      /\ sessions'[t].user_id \in 1..Len(users)
                      /\ out'.token = t =>
                            /\ out'.route = "POST /login"
                            /\ out'.res.target = "/members"
                            /\ LET user == users[sessions'[t].user_id]
                               IN  /\ user.email = out'.email
                                   /\ user.password.digest = out'.password
          /\ (Ready(t) /\ req'[t].pc # "done")
                => /\ ~EmailPresent(req'[t].email)
                   /\ ~sessions'[t].authenticated
                         \/ sessions'[t] = sessions[t]
          /\ (out'.token = t /\ out'.res.target # "/members")
                => (sessions'[t].authenticated
                      => sessions[t].authenticated)]_vars

C8_Witness ==
    /\ out.route = "POST /login"
    /\ out.res.target = "/members"
    /\ \E t \in Tokens :
          /\ out.token = t
          /\ sessions[t].authenticated
          /\ sessions[t].user_id \in 1..Len(users)

\* C9: GET /logout leaves the token without session state, so that its next
\* request sees the unauthenticated default (no flag, name, role, user id)
\* and, on a gated route, is redirected to /login.
C9_LogoutResetsSession ==
    [][\A t \in Tokens :
          /\ Answers(t, {"GET /logout"})
                => /\ sessions'[t] = NoSession
                   /\ LoadSession(sessions'[t]) =
                         [live |-> TRUE, authenticated |-> FALSE,
                          name |-> Undefined, user_type |-> Undefined,
                          user_id |-> 0]
                   /\ out'.res.kind = "redirect"
                   /\ out'.res.target = "/"
          /\ (~sessions[t].live /\ Answers(t, GatedRoutes))
                => /\ out'.res.kind = "redirect"
                   /\ out'.res.target = "/login"]_vars

C9_Witness ==
    /\ out.route = "GET /logout"
    /\ \E t \in Tokens : out.token = t /\ sessions[t] = NoSession
    /\ Len(users) > 0

C11_AuthenticationSetsSnapshot ==
    [][\A t \in Tokens :
          (Answers(t, {"POST /login", "POST /signup"})
             /\ out'.res = Redirect("/members"))
             => /\ sessions'[t].authenticated
                /\ sessions'[t].user_id \in 1..Len(users')
                /\ LET user == Doc(users', sessions'[t].user_id)
                   IN  /\ user.email = out'.email
                       /\ sessions'[t].name = user.name
                       /\ sessions'[t].user_type = user.user_type
                /\ out'.route = "POST /signup"
                      => sessions'[t].user_id = Len(users')]_vars

\* C12: every request that is finished got a response rendered or
\* redirected by its handler, whatever storage, hash or id operation
\* failed, and the server is still serving afterwards.
C12_EveryRequestAnswered ==
    [][out' # NoOutput
          => /\ out'.res.kind \in {"render", "redirect"}
             /\ server' = "listening"]_vars

\* The role a route sets.
RoleOf(route) == IF route = "GET /promote/:id" THEN "admin" ELSE "user"

\* C13: a promote or demote of a stored id by an admin session, answered
\* with the redirect to /admin, sets the role of that record to the role of
\* the route and leaves every other record and field as it was; hence in
\* every reachable store a promote followed by a demote of the same id
\* leaves that record with role 'user' and the other records unchanged.
C13_PromoteThenDemote ==
    [][/\ \A t \in Tokens :
             (Answers(t, RoleRoutes) /\ out'.res = Redirect("/admin")
                /\ Session(t).user_type = "admin"
                /\ out'.id \in 1..Len(users))
             => users' = [users EXCEPT
                            ![out'.id].user_type = RoleOf(out'.route)]
       /\ \A id \in 1..Len(users) :
             UpdateOne(UpdateOne(users, id, "admin"), id, "user")
                = [users EXCEPT ![id].user_type = "user"]]_vars

\* An admin's own record, promoted before the login, has just been demoted
\* by that admin, next to another record that is admin.
C13_Witness ==
    /\ out.route = "GET /demote/:id"
    /\ out.res = Redirect("/admin")
    /\ \E t \in Tokens :
          /\ out.token = t
          /\ sessions[t].user_type = "admin"
          /\ sessions[t].user_id = out.id
    /\ out.id \in 1..Len(users)
    /\ users[out.id].user_type = "user"
    /\ \E j \in 1..Len(users) : j # out.id /\ users[j].user_type = "admin"

\* The step handles a request: it starts, continues or finishes one.
Handling ==
    \/ req' # req
    \/ sessions' # sessions
    \/ users' # users
    \/ out' # out

\* C14: a request is handled only while the server is listening, and the
\* server listens only once connect has completed and the users collection
\* reference is set; a failed connect never leads to listening.
C14_NoHandlerBeforeConnect ==
    [][/\ Handling => (server = "listening" /\ usersCollection = "users")
       /\ server' = "listening" => usersCollection' = "users"
       /\ usersCollection' # "users"
             => (server' \in {"stalled", "exited"} /\ ~Handling)]_vars

\* A signup is between its lookup and its insert: a handler is running, on
\* a collection reference that is set.
C14_Witness ==
    /\ \E t \in Tokens : req[t].pc = "hash" /\ req[t].route = "POST /signup"
    /\ usersCollection = "users"
    /\ server = "listening"

\* C15: a POST /signup whose body has a missing or empty name, a missing or
\* ill-formed email, or a missing or empty password is answered at once
\* with the signup form and the message about the first such field; no
\* lookup and no insert is made, and the session keeps its fields.
C15_ValidationFailure ==
    [][\A t \in Tokens :
          (/\ Answers(t, {"POST /signup"})
           /\ \/ out'.name \in {Undefined, ""}
              \/ out'.email \in {Undefined, "", BadEmail}
              \/ out'.password \in {Undefined, ""})
          => /\ Ready(t)
             /\ out'.res.kind = "render"
             /\ out'.res.target = "signup"
             /\ out'.res.error \in
                   IF out'.name \in {Undefined, ""}
                   THEN {"\"name\" is required",
                         "\"name\" is not allowed to be empty"}
                   ELSE IF out'.email \in {Undefined, "", BadEmail}
                   THEN {"\"email\" is required",
                         "\"email\" is not allowed to be empty",
                         "\"email\" must be a valid email"}
                   ELSE {"\"password\" is required",
                         "\"password\" is not allowed to be empty"}
             /\ out'.trace = <<"handler">>
             /\ users' = users
             /\ sessions' = [sessions EXCEPT ![t] = Session(t)]]_vars

\* A signup with an ill-formed email sent on an authenticated session was
\* answered with the validation message; the session is as it was.
C15_Witness ==
    /\ out.route = "POST /signup"
    /\ out.email = BadEmail
    /\ out.res.error = "\"email\" must be a valid email"
    /\ \E t \in Tokens : out.token = t /\ sessions[t].authenticated
    /\ Len(users) > 0

\* C16: no step removes a record or changes the position (_id), name,
\* email or password hash of a record; a step adds at most one record, at
\* the end.
C16_StoreOnlyGrows ==
    [][/\ Len(users') \in {Len(users), Len(users) + 1}
       /\ \A i \in 1..Len(users) :
             /\ users'[i].name = users[i].name
             /\ users'[i].email = users[i].email
             /\ users'[i].password = users[i].password]_vars

\* A second record was just inserted by a signup with the email of the
\* first, whose role had been changed before: both records are there.
C16_Witness ==
    /\ out.route = "POST /signup"
    /\ out.res = Redirect("/members")
    /\ Len(users) = 2
    /\ users[1].user_type = "admin"
    /\ users[1].email = users[2].email
    /\ users[1].name # users[2].name

\* C17: every record's role is 'user' or 'admin'; a record is created with
\* role 'user'; setting a role twice is setting it once: a promote or
\* demote of a record that has the route's role already leaves the store
\* as it is.
C17_RolesAndIdempotence ==
    [][/\ \A i \in 1..Len(users') : users'[i].user_type \in {"user", "admin"}
       /\ Len(users') > Len(users)
             => users'[Len(users')].user_type = "user"
       /\ \A id \in 1..Len(users), role \in {"user", "admin"} :
             UpdateOne(UpdateOne(users, id, role), id, role)
                = UpdateOne(users, id, role)
       /\ \A t \in Tokens :
             (Answers(t, RoleRoutes) /\ out'.res = Redirect("/admin")
                /\ out'.id \in 1..Len(users)
                /\ users[out'.id].user_type = RoleOf(out'.route))
             => users' = users]_vars

\* An admin, whose record was promoted before its login, has promoted its
\* own record; the other record has the role it was created with.
C17_Witness ==
    /\ out.route = "GET /promote/:id"
    /\ out.res = Redirect("/admin")
    /\ \E t \in Tokens :
          /\ out.token = t
          /\ sessions[t].user_type = "admin"
          /\ sessions[t].user_id = out.id
    /\ out.id \in 1..Len(users)
    /\ users[out.id].user_type = "admin"
    /\ \E j \in 1..Len(users) : users[j].user_type = "user"

\* C18: a POST /login that is not answered with the redirect to /members is
\* answered with the login form and the message of its cause ('Email not
\* found' when no record has the email, 'Incorrect password' when the found
\* record's hash is not the password's, the generic message when findOne or
\* bcrypt.compare raised); the session keeps its fields, authenticated or
\* not, and the collection is unchanged.
C18_FailedLoginKeepsSession ==
    [][\A t \in Tokens :
          (Answers(t, {"POST /login"}) /\ out'.res # Redirect("/members"))
          => /\ out'.res.kind = "render"
             /\ out'.res.target = "login"
             /\ out'.res.error \in
                   {"Something went wrong. Try again."} \cup
                   (IF ~EmailPresent(out'.email)
                    THEN {"Email not found"}
                    ELSE IF FindOne(users, out'.email).password
                               # Hash(out'.password)
                    THEN {"Incorrect password"}
                    ELSE {})
             /\ users' = users
             /\ sessions' = [sessions EXCEPT ![t] = Session(t)]
             /\ server' = server]_vars

\* A login with a wrong password was refused on a session that is
\* authenticated as the user of another record, and still is.
C18_Witness ==
    /\ out.route = "POST /login"
    /\ out.res.error = "Incorrect password"
    /\ \E t \in Tokens :
          /\ out.token = t
          /\ sessions[t].authenticated
          /\ sessions[t].user_id \in 1..Len(users)
          /\ users[sessions[t].user_id].email # out.email

\* C19: the user id, the display name and the role of an authenticated
\* session are those of one record: the name in the session is the name of
\* the record with the session's user id (names never change).
C19_SnapshotFromOneRecord ==
    \A t \in Tokens :
       (sessions[t].authenticated /\ sessions[t].user_id \in 1..Len(users))
          => sessions[t].name = users[sessions[t].user_id].name

\* C20: GET /admin of an authenticated session with role 'admin' is not
\* flagged and, unless the find itself failed, renders the admin page with
\* every record of the collection and status 200; a session with role
\* 'user' whose record has been set to 'admin' still gets the empty list
\* with status 403, and gets the role 'admin' by logging in again.
C20_AdminSeesAllUsers ==
    [][\A t \in Tokens :
          /\ (Answers(t, {"GET /admin"}) /\ Session(t).authenticated
                /\ Session(t).user_type = "admin"
                /\ out'.res.kind \notin {"none", "error"})
                => /\ ~out'.permissionDenied
                   /\ out'.res.kind = "render"
                   /\ out'.res.target = "admin"
                   /\ out'.res.error = ""
                   /\ out'.res.users = 1..Len(users)
                   /\ out'.res.status = 200
          /\ (Answers(t, {"GET /admin"}) /\ Session(t).authenticated
                /\ Session(t).user_type = "user"
                /\ Session(t).user_id \in 1..Len(users)
                /\ users[Session(t).user_id].user_type = "admin")
                => /\ out'.res.users = {}
                   /\ out'.res.status = 403
          /\ (Answers(t, {"POST /login"}) /\ out'.res = Redirect("/members")
                /\ FindOne(users, out'.email).user_type = "admin")
                => sessions'[t].user_type = "admin"]_vars

\* An admin session was shown both records of the collection.
C20_Witness ==
    /\ out.route = "GET /admin"
    /\ out.res.users = {1, 2}
    /\ out.res.status = 200
    /\ ~out.permissionDenied
    /\ Len(users) = 2
    /\ \E t \in Tokens :
          /\ out.token = t
          /\ sessions[t].authenticated
          /\ sessions[t].user_type = "admin"

====
